---- MODULE Spec2Model ----
(***************************************************************************)
(* Model of v1_basic_sdk.py: the CLI loop (main), the orchestrator         *)
(* (analyze_company_with_assistant) and the fetcher                        *)
(* (fetch_website_content).                                                *)
(*                                                                         *)
(* Strings are sequences of one-character strings.  The literal pieces of  *)
(* the f-string templates and of the fixed messages are single elements    *)
(* (tokens) of such a sequence, so that text supplied by the user or by a  *)
(* web page can never be mistaken for a piece of the template.             *)
(***************************************************************************)
EXTENDS Integers, Sequences, FiniteSets, TLC

VARIABLES
  pc,               \* the statement the program is at
  user_input,       \* the line read by main
  printed,          \* the kind of the last line printed
  invoked,          \* calls of the orchestrator since the line was read
  is_url, website_content, message_content,
  response,         \* what the network answered to requests.get
  thread,           \* the messages posted on the remote thread
  run_status,       \* run.status, "none" before the run exists
  messages,         \* messages.data as listed
  analysis,         \* what analyze_company_with_assistant returned or raised
  calls             \* the remote operations of the current call, in order

vars == <<pc, user_input, printed, invoked, is_url, website_content,
          message_content, response, thread, run_status, messages, analysis,
          calls>>

(* ------------------------------ bounds --------------------------------- *)
\* number of status retrievals that the call log records (the loop itself
\* is not bounded)
MaxPolls == 2
\* number of assistant messages the service may have added to the thread
MaxReplies == 2
\* how far the longest fetched page exceeds the truncation length
Overshoot == 2

(* ----------------------------- strings --------------------------------- *)
\* website_content[:4000], line 82
TruncLen == 4000

Min2(a, b) == IF a <= b THEN a ELSE b

IsWS(c) == c \in {" ", "\t", "\n"}

LowerChar(c) ==
  CASE c = "Q" -> "q" [] c = "U" -> "u" [] c = "I" -> "i" [] c = "T" -> "t"
    [] c = "E" -> "e" [] c = "X" -> "x" [] c = "H" -> "h" [] c = "P" -> "p"
    [] c = "S" -> "s" [] c = "A" -> "a" [] OTHER -> c

\* str.lower()
Lower(s) == [i \in 1..Len(s) |-> LowerChar(s[i])]

\* str.strip()
Strip(s) ==
  IF \A i \in 1..Len(s) : IsWS(s[i]) THEN << >>
  ELSE LET first == CHOOSE i \in 1..Len(s) :
                      ~IsWS(s[i]) /\ \A j \in 1..(i-1) : IsWS(s[j])
           last  == CHOOSE i \in 1..Len(s) :
                      ~IsWS(s[i]) /\ \A j \in (i+1)..Len(s) : IsWS(s[j])
       IN SubSeq(s, first, last)

\* str.startswith(p)
StartsWith(s, p) == Len(s) >= Len(p) /\ SubSeq(s, 1, Len(p)) = p

\* s[:n]
Slice(s, n) == SubSeq(s, 1, Min2(Len(s), n))

RECURSIVE CollapseRec(_)
CollapseRec(s) ==
  IF s = << >> THEN << >>
  ELSE IF IsWS(s[1])
       THEN IF Len(s) > 1 /\ IsWS(s[2]) THEN CollapseRec(Tail(s))
            ELSE <<" ">> \o CollapseRec(Tail(s))
       ELSE <<s[1]>> \o CollapseRec(Tail(s))

\* re.sub(r'\s+', ' ', s): every maximal run of whitespace becomes one space.
\* A string without whitespace is returned as it is.
CollapseWS(s) ==
  IF \A i \in 1..Len(s) : ~IsWS(s[i]) THEN s ELSE CollapseRec(s)

RECURSIVE Join(_)
\* ' '.join(parts)
Join(parts) ==
  IF parts = << >> THEN << >>
  ELSE IF Len(parts) = 1 THEN parts[1]
  ELSE parts[1] \o <<" ">> \o Join(Tail(parts))

\* a text of n characters without whitespace, ending in "z"
Fill(n) == [i \in 1..n |-> IF i = n THEN "z" ELSE IF i % 3 = 0 THEN "c" ELSE "a"]

(* --------------------------- exceptions -------------------------------- *)
\* classes derived from Exception that the calls of the program can raise
RequestErrors == {"ConnectionError", "Timeout", "HTTPError"}
ApiErrors == {"APIConnectionError", "APIStatusError"}
ExceptionClasses == RequestErrors \cup ApiErrors \cup {"ParserError", "AttributeError"}

NoValue == [raised |-> "none", value |-> << >>]
Returned(v) == [raised |-> "none", value |-> v]
Raised(e) == [raised |-> e, value |-> <<e>>]

(* ------------------------------ fetcher -------------------------------- *)
ErrorPrefix == "Error fetching website content: "

\* a page is a sequence of nodes [tag, text]
\* soup(["script", "style"]) ... script.extract(), lines 27-28
RemoveScripts(page) == SelectSeq(page, LAMBDA n : n.tag \notin {"script", "style"})

\* soup.get_text(separator=' ', strip=True), line 31: every string is
\* stripped, empty ones are dropped, the rest joined with the separator
GetText(page) ==
  LET stripped == [i \in 1..Len(page) |-> Strip(page[i].text)]
  IN Join(SelectSeq(stripped, LAMBDA t : t # << >>))

\* lines 24-34
ExtractText(page) == Strip(CollapseWS(GetText(RemoveScripts(page))))

\* the body of the try block, lines 18-36
FetchBody(resp) ==
  IF resp.transport # "ok" THEN Raised(resp.transport)
  ELSE IF resp.status >= 400 THEN Raised("HTTPError")
  ELSE IF resp.parse # "ok" THEN Raised(resp.parse)
  ELSE Returned(ExtractText(resp.page))

\* "except Exception" without the parse failures
FetchCatchesOnlyRequests(e) == e \in RequestErrors

\* except Exception as e, line 37
FetchCatches(e) == e \in ExceptionClasses

\* lines 15-38
fetch_website_content(resp) ==
  LET r == FetchBody(resp)
  IN IF r.raised # "none" /\ FetchCatches(r.raised)
     THEN Returned(<<ErrorPrefix>> \o r.value)
     ELSE r

Node(tag, text) == [tag |-> tag, text |-> text]

Pages ==
  { << >>,
    <<Node("p", <<"a", "c">>)>>,
    <<Node("p", <<" ", "a", " ", "\n", "b", "\t">>), Node("script", <<"x">>),
      Node("p", <<" ">>), Node("style", <<"y">>), Node("p", <<"c">>)>> }
  \cup { <<Node("p", Fill(n))>> :
           n \in {TruncLen - 1, TruncLen, TruncLen + Overshoot} }

Response(t, s, p, x) == [transport |-> t, status |-> s, page |-> p, parse |-> x]

NoResponse == Response("none", 0, << >>, "ok")

Responses ==
  { Response("ok", 200, p, "ok") : p \in Pages }
  \cup { Response("ConnectionError", 0, << >>, "ok"),
         Response("Timeout", 0, << >>, "ok"),
         Response("ok", 404, <<Node("p", <<"a">>)>>, "ok"),
         Response("ok", 200, <<Node("p", <<"a">>)>>, "ParserError") }

(* --------------------------- orchestrator ------------------------------ *)
PromptUrlHead == "Analyze the following company based on its website content: URL: "
PromptWebsiteContent == "Website Content:"
PromptUrlTail == "  # Limiting content length / Please provide a detailed analysis of the company."
PromptNameHead == "Analyze the following company: Company Name: "
PromptNameTail == "Please provide a detailed analysis of the company based on your knowledge."
Sentinel == <<"No analysis was generated.">>

HttpPrefix == <<"h", "t", "t", "p", ":", "/", "/">>
HttpsPrefix == <<"h", "t", "t", "p", "s", ":", "/", "/">>

\* a classification that ignores case
IsUrlAnyCase(s) == StartsWith(Lower(s), HttpPrefix) \/ StartsWith(Lower(s), HttpsPrefix)

\* input_text.startswith(('http://', 'https://')), line 71
IsUrl(s) == StartsWith(s, HttpPrefix) \/ StartsWith(s, HttpsPrefix)

\* the f-string without the slice
UrlPromptUncut(input_text, content) ==
  <<PromptUrlHead>> \o input_text \o <<PromptWebsiteContent>>
     \o content \o <<PromptUrlTail>>

\* lines 77-85
UrlPrompt(input_text, content) ==
  <<PromptUrlHead>> \o input_text \o <<PromptWebsiteContent>>
     \o Slice(content, TruncLen) \o <<PromptUrlTail>>

\* lines 88-93
NamePrompt(input_text) == <<PromptNameHead>> \o input_text \o <<PromptNameTail>>

Statuses == {"queued", "in_progress", "completed", "failed", "cancelled",
             "expired", "requires_action"}

\* a loop condition that forgets "in_progress"
PendingQueuedOnly(status) == status = "queued"

\* run.status in ["queued", "in_progress"], line 115
Pending(status) == status \in {"queued", "in_progress"}

TextPart(v) == [type |-> "text", value |-> v]
ImagePart == [type |-> "image_file", value |-> << >>]
Message(role, created, content) ==
  [role |-> role, created_at |-> created, content |-> content]

ReplyContents ==
  { << >>, <<TextPart(<<"A">>)>>, <<TextPart(<<"B">>)>>, <<ImagePart>>,
    <<TextPart(<<"B">>), TextPart(<<"A">>)>>, <<ImagePart, TextPart(<<"A">>)>> }

\* the contents of what the service has appended to the thread by the time
\* the messages are listed: up to MaxReplies assistant messages, oldest first
ReplySeqs ==
  UNION { [1..k -> ReplyContents] : k \in 0..MaxReplies }

Replies(n, cs) == [i \in 1..Len(cs) |-> Message("assistant", n + i, cs[i])]

Reverse(s) == [i \in 1..Len(s) |-> s[Len(s) + 1 - i]]

IsAssistant(msg) == msg.role = "assistant"

\* the oldest assistant message instead of the newest
LatestOfOldestFirst(assistant_messages) == assistant_messages[Len(assistant_messages)]

\* latest_message = assistant_messages[0], line 134
LatestOf(assistant_messages) == assistant_messages[1]

\* an extraction that returns the empty string when nothing was found
ExtractAnalysisEmpty(data) ==
  LET assistant_messages == SelectSeq(data, IsAssistant)
  IN IF assistant_messages # << >> /\ LatestOf(assistant_messages).content # << >>
     THEN LET part == LatestOf(assistant_messages).content[1]
          IN IF part.type = "text" THEN Returned(part.value)
             ELSE Raised("AttributeError")
     ELSE Returned(<< >>)

\* lines 130-140; a content part that is not a text part has no .text
ExtractAnalysis(data) ==
  LET assistant_messages == SelectSeq(data, IsAssistant)
  IN IF assistant_messages # << >> /\ LatestOf(assistant_messages).content # << >>
     THEN LET part == LatestOf(assistant_messages).content[1]
          IN IF part.type = "text" THEN Returned(part.value)
             ELSE Raised("AttributeError")
     ELSE Returned(Sentinel)

(* ------------------------------ CLI loop ------------------------------- *)
QuitCommands == { <<"q", "u", "i", "t">>, <<"e", "x", "i", "t">>, <<"q">> }

\* a comparison that forgets lower()
IsQuitCommandExact(s) == s \in QuitCommands

\* user_input.lower() in ['quit', 'exit', 'q'], line 150
IsQuitCommand(s) == Lower(s) \in QuitCommands

\* not user_input.strip(), line 153
IsBlank(s) == Strip(s) = << >>

\* an except clause that names the API errors only
MainCatchesApiOnly(e) == e \in ApiErrors

\* except Exception as e, line 162
MainCatches(e) == e \in ExceptionClasses

Inputs ==
  { << >>, <<" ">>, <<"\t", " ">>,
    <<"q">>, <<"Q">>, <<"q", "u", "i", "t">>, <<"Q", "U", "I", "T">>,
    <<"E", "x", "i", "t">>, <<"e", "x", "i", "t">>,
    <<" ", "q">>, <<"a", "c", "m", "e">>,
    <<"h", "t", "t", "p", ":", "/", "/", "a">>,
    <<"h", "t", "t", "p", "s", ":", "/", "/">>,
    <<"H", "T", "T", "P", ":", "/", "/", "a">>,
    <<"a", "h", "t", "t", "p", ":", "/", "/">> }

Call(op, arg, ok) == [op |-> op, arg |-> arg, ok |-> ok]

\* the successful retrievals beyond MaxPolls are not recorded
Log(c) ==
  IF c.op = "retrieve" /\ c.ok
       /\ Cardinality({i \in 1..Len(calls) : calls[i].op = "retrieve"}) >= MaxPolls
  THEN calls ELSE Append(calls, c)

\* an exception leaves analyze_company_with_assistant and reaches the try
\* statement of main, lines 159-163
Propagate(e) ==
  /\ analysis' = Raised(e)
  /\ pc' = IF MainCatches(e) THEN "except" ELSE "crashed"

Init ==
  /\ pc = "prompt"
  /\ user_input = << >>
  /\ printed = "banner"
  /\ invoked = 0
  /\ is_url = FALSE
  /\ website_content = << >>
  /\ message_content = << >>
  /\ response = NoResponse
  /\ thread = << >>
  /\ run_status = "none"
  /\ messages = << >>
  /\ analysis = NoValue
  /\ calls = << >>

\* main, lines 148-157: one line is read and dispatched
Input ==
  /\ pc = "prompt"
  /\ \E s \in Inputs :
       /\ user_input' = s
       /\ IF IsQuitCommand(s) THEN pc' = "done" /\ printed' = "farewell"
          ELSE IF IsBlank(s) THEN pc' = "prompt" /\ printed' = "validation"
          ELSE pc' = "analyze" /\ printed' = "analyzing"
  /\ invoked' = 0
  /\ is_url' = FALSE
  /\ website_content' = << >>
  /\ message_content' = << >>
  /\ response' = NoResponse
  /\ thread' = << >>
  /\ run_status' = "none"
  /\ messages' = << >>
  /\ analysis' = NoValue
  /\ calls' = << >>

\* main line 160 and analyze_company_with_assistant, lines 70-93
BuildPrompt ==
  /\ pc = "analyze"
  /\ invoked' = invoked + 1
  /\ is_url' = IsUrl(user_input)
  /\ IF IsUrl(user_input)
     THEN \E resp \in Responses :
            LET r == fetch_website_content(resp)
            IN /\ response' = resp
               /\ calls' = Log(Call("fetch", user_input, FetchBody(resp).raised = "none"))
               /\ IF r.raised = "none"
                  THEN /\ website_content' = r.value
                       /\ message_content' = UrlPrompt(user_input, r.value)
                       /\ pc' = "create_assistant"
                       /\ analysis' = analysis
                  ELSE /\ Propagate(r.raised)
                       /\ UNCHANGED <<website_content, message_content>>
     ELSE /\ message_content' = NamePrompt(user_input)
          /\ pc' = "create_assistant"
          /\ UNCHANGED <<website_content, response, analysis, calls>>
  /\ UNCHANGED <<user_input, printed, thread, run_status, messages>>

\* a remote call that either succeeds or raises an API error
RemoteCall(at, op, next) ==
  /\ pc = at
  /\ \E out \in {"ok"} \cup ApiErrors :
       /\ calls' = Log(Call(op, << >>, out = "ok"))
       /\ IF out = "ok" THEN pc' = next /\ analysis' = analysis
          ELSE Propagate(out)

\* create_business_analyst_assistant, lines 40-58 and 96
CreateAssistant ==
  /\ RemoteCall("create_assistant", "create_assistant", "create_thread")
  /\ UNCHANGED <<user_input, printed, invoked, is_url, website_content,
                 message_content, response, thread, run_status, messages>>

\* client.beta.threads.create(), line 99
CreateThread ==
  /\ RemoteCall("create_thread", "create_thread", "post_message")
  /\ UNCHANGED <<user_input, printed, invoked, is_url, website_content,
                 message_content, response, thread, run_status, messages>>

\* a post whose failure is swallowed
PostMessageSwallow ==
  /\ pc = "post_message"
  /\ \E out \in {"ok"} \cup ApiErrors :
       /\ calls' = Log(Call("post_message", << >>, out = "ok"))
       /\ thread' = IF out = "ok"
                    THEN <<Message("user", 1, <<TextPart(message_content)>>)>>
                    ELSE thread
  /\ pc' = "create_run"
  /\ UNCHANGED <<user_input, printed, invoked, is_url, website_content,
                 message_content, response, run_status, messages, analysis>>

\* client.beta.threads.messages.create(...), lines 102-106
PostMessage ==
  /\ RemoteCall("post_message", "post_message", "create_run")
  /\ thread' = IF pc' = "create_run"
               THEN <<Message("user", 1, <<TextPart(message_content)>>)>>
               ELSE thread
  /\ UNCHANGED <<user_input, printed, invoked, is_url, website_content,
                 message_content, response, run_status, messages>>

\* client.beta.threads.runs.create(...), lines 109-112
CreateRun ==
  /\ RemoteCall("create_run", "create_run", "poll")
  /\ IF pc' = "poll" THEN run_status' \in Statuses ELSE run_status' = run_status
  /\ UNCHANGED <<user_input, printed, invoked, is_url, website_content,
                 message_content, response, thread, messages>>

\* one turn of the while loop, lines 115-121
Retrieve ==
  /\ pc = "poll"
  /\ Pending(run_status)
  /\ printed' = "dot"
  /\ \E out \in {"ok"} \cup ApiErrors :
       /\ calls' = Log(Call("retrieve", << >>, out = "ok"))
       /\ IF out = "ok"
          THEN /\ run_status' \in Statuses
               /\ pc' = "poll"
               /\ analysis' = analysis
          ELSE /\ run_status' = run_status
               /\ Propagate(out)
  /\ UNCHANGED <<user_input, invoked, is_url, website_content,
                 message_content, response, thread, messages>>

\* the loop condition is false, lines 115 and 123
ExitPoll ==
  /\ pc = "poll"
  /\ ~Pending(run_status)
  /\ printed' = "newline"
  /\ pc' = "list"
  /\ UNCHANGED <<user_input, invoked, is_url, website_content, message_content,
                 response, thread, run_status, messages, analysis, calls>>

\* a listing that turns a failed or cancelled run into an error
ListMessagesChecked ==
  /\ pc = "list"
  /\ \E out \in {"ok"} \cup ApiErrors, cs \in ReplySeqs :
       /\ calls' = Log(Call("list_messages", << >>, out = "ok"))
       /\ IF out # "ok"
          THEN Propagate(out) /\ messages' = messages
          ELSE /\ messages' = Reverse(thread \o Replies(Len(thread), cs))
               /\ IF run_status \in {"failed", "cancelled"}
                  THEN Propagate("APIStatusError")
                  ELSE LET r == ExtractAnalysis(messages')
                       IN IF r.raised = "none"
                          THEN analysis' = r /\ pc' = "print_analysis"
                          ELSE Propagate(r.raised)
  /\ UNCHANGED <<user_input, printed, invoked, is_url, website_content,
                 message_content, response, thread, run_status>>

\* lines 126-140: the messages are listed newest first (the default order
\* of the service) and the reply is extracted
ListMessages ==
  /\ pc = "list"
  /\ \E out \in {"ok"} \cup ApiErrors, cs \in ReplySeqs :
       /\ calls' = Log(Call("list_messages", << >>, out = "ok"))
       /\ IF out # "ok"
          THEN Propagate(out) /\ messages' = messages
          ELSE /\ messages' = Reverse(thread \o Replies(Len(thread), cs))
               /\ LET r == ExtractAnalysis(messages')
                  IN IF r.raised = "none"
                     THEN analysis' = r /\ pc' = "print_analysis"
                     ELSE Propagate(r.raised)
  /\ UNCHANGED <<user_input, printed, invoked, is_url, website_content,
                 message_content, response, thread, run_status>>

\* print("\n" + analysis), line 161
PrintAnalysis ==
  /\ pc = "print_analysis"
  /\ printed' = "result"
  /\ pc' = "prompt"
  /\ UNCHANGED <<user_input, invoked, is_url, website_content, message_content,
                 response, thread, run_status, messages, analysis, calls>>

\* print(f"Error performing analysis: ..."), line 163
HandleError ==
  /\ pc = "except"
  /\ printed' = "error"
  /\ pc' = "prompt"
  /\ UNCHANGED <<user_input, invoked, is_url, website_content, message_content,
                 response, thread, run_status, messages, analysis, calls>>

Next ==
  \/ Input
  \/ BuildPrompt
  \/ CreateAssistant
  \/ CreateThread
  \/ PostMessage
  \/ CreateRun
  \/ Retrieve
  \/ ExitPoll
  \/ ListMessages
  \/ PrintAnalysis
  \/ HandleError

Spec == Init /\ [][Next]_vars

TypeOK ==
  /\ pc \in {"prompt", "analyze", "create_assistant", "create_thread",
             "post_message", "create_run", "poll", "list", "print_analysis",
             "except", "crashed", "done"}
  /\ invoked \in 0..1
  /\ run_status \in Statuses \cup {"none"}

(* ------------------------- helpers of the claims ----------------------- *)
Range(q) == { q[i] : i \in 1..Len(q) }
OpsOf(op) == { i \in 1..Len(calls) : calls[i].op = op }
LastCall == calls[Len(calls)]
\* messages.list returned and the extraction has run
Listed == calls # << >> /\ LastCall.op = "list_messages" /\ LastCall.ok
AssistantIn(data) == { i \in 1..Len(data) : data[i].role = "assistant" }
\* the assistant message with the greatest creation time
NewestAssistant(data) ==
  data[CHOOSE i \in AssistantIn(data) :
         \A j \in AssistantIn(data) : data[j].created_at <= data[i].created_at]
QuitSpellings == { s \in Inputs : Lower(s) \in QuitCommands }
OnlyWhitespace(s) == \A i \in 1..Len(s) : s[i] \in {" ", "\t", "\n"}
Rank(op) ==
  CASE op = "fetch" -> 1 [] op = "create_assistant" -> 2
    [] op = "create_thread" -> 3 [] op = "post_message" -> 4
    [] op = "create_run" -> 5 [] op = "retrieve" -> 6
    [] op = "list_messages" -> 7

(* -------------------------------- C1 ----------------------------------- *)
\* C1 as stated: neither the message listing nor the caller (main, at its
\* print or in its except clause) has control while the last observed run
\* status is queued or in_progress.
C1_Original ==
  pc \in {"list", "print_analysis", "except"}
    => run_status \notin {"queued", "in_progress"}

\* C1 amended: the message listing and the return of a value are never
\* reached while the last observed status is queued or in_progress; while it
\* is, the only steps are another retrieve or an error raised by retrieve
\* that propagates to main; once the status is any other value the loop
\* goes to the listing without another retrieve.
C1_PollBlocks ==
  /\ [](pc \in {"list", "print_analysis"}
          => run_status \notin {"queued", "in_progress", "none"})
  /\ [][pc = "poll" =>
          IF run_status \in {"queued", "in_progress"}
          THEN /\ pc' \in {"poll", "except"}
               /\ pc' = "except" => (analysis'.raised \in ApiErrors
                                      /\ ~calls'[Len(calls')].ok)
          ELSE pc' = "list" /\ calls' = calls]_vars

C1_Witness ==
  /\ pc = "list"
  /\ Cardinality(OpsOf("retrieve")) >= 2
  /\ run_status = "requires_action"

(* -------------------------------- C2 ----------------------------------- *)
\* C2: no failure while a line is handled ends the process: a failed fetch
\* or an error raised by a remote call leads to a printed error or result
\* line and back to the prompt, and the loop is left only after a quit
\* command.
C2_NonFatal ==
  /\ pc # "crashed"
  /\ pc = "done" => user_input \in QuitSpellings /\ printed = "farewell"
  /\ analysis.raised # "none" => pc \in {"except", "prompt"}
  /\ pc = "except" => analysis.raised # "none"
  /\ (pc = "prompt" /\ invoked = 1) =>
        \/ printed = "error" /\ analysis.raised # "none"
        \/ printed = "result" /\ analysis.raised = "none"

C2_Witness ==
  /\ pc = "prompt"
  /\ printed = "error"
  /\ calls # << >> /\ calls[1].op = "fetch" /\ ~calls[1].ok
  /\ analysis.raised = "AttributeError"

(* -------------------------------- C3 ----------------------------------- *)
\* C3 as stated: after a line is handled, the orchestrator was not invoked
\* if the line is empty or a quit command (which ends the loop), and was
\* invoked exactly once for every other line.
C3_Original ==
  (printed # "banner" /\ pc \in {"prompt", "done"}) =>
     IF user_input = << >> THEN invoked = 0 /\ pc = "prompt"
     ELSE IF user_input \in QuitSpellings THEN invoked = 0 /\ pc = "done"
     ELSE invoked = 1 /\ pc = "prompt"

\* C3 amended: the orchestrator is never invoked for a line that is empty
\* or consists of whitespace only, nor for a quit command (compared without
\* regard to case), which ends the loop; every other line invokes it exactly
\* once before the next prompt.
C3_Dispatch ==
  /\ invoked \in {0, 1}
  /\ (printed # "banner" /\ user_input \in QuitSpellings) =>
        pc = "done" /\ invoked = 0
  /\ (printed # "banner" /\ pc \in {"prompt", "done"}) =>
        IF OnlyWhitespace(user_input) THEN invoked = 0 /\ pc = "prompt"
        ELSE IF user_input \in QuitSpellings THEN invoked = 0 /\ pc = "done"
        ELSE invoked = 1 /\ pc = "prompt"

C3_Witness ==
  /\ pc = "prompt"
  /\ user_input = <<" ", "q">>
  /\ invoked = 1
  /\ printed = "result"

(* -------------------------------- C4 ----------------------------------- *)
\* C4: when the listed messages hold no assistant message, analyze returns
\* the sentinel, whatever the terminal status.
C4_Sentinel ==
  (Listed /\ AssistantIn(messages) = {}) =>
     /\ analysis.raised = "none"
     /\ analysis.value = <<"No analysis was generated.">>
     /\ pc \in {"print_analysis", "prompt"}

C4_Witness ==
  /\ pc = "print_analysis"
  /\ run_status = "completed"
  /\ Len(messages) = 1 /\ messages[1].role = "user"
  /\ analysis.value = <<"No analysis was generated.">>

(* -------------------------------- C5 ----------------------------------- *)
\* C5 as stated: when the listed messages hold an assistant message,
\* analyze returns the text of the first content part of the most recent
\* one.
C5_Original ==
  (Listed /\ AssistantIn(messages) # {}) =>
     LET m == NewestAssistant(messages)
     IN /\ analysis.raised = "none"
        /\ m.content # << >>
        /\ m.content[1].type = "text"
        /\ analysis.value = m.content[1].value

\* C5 amended: when the listed messages hold an assistant message, the
\* outcome is decided by the most recent one: the text of its first content
\* part when that part is a text part, the sentinel when it has no content,
\* and an error raised to main when its first part is not a text part.
C5_Latest ==
  (Listed /\ AssistantIn(messages) # {}) =>
     LET m == NewestAssistant(messages)
     IN IF m.content = << >>
        THEN analysis = Returned(<<"No analysis was generated.">>)
        ELSE IF m.content[1].type = "text"
        THEN analysis = Returned(m.content[1].value)
        ELSE analysis.raised = "AttributeError" /\ pc \in {"except", "prompt"}

C5_Witness ==
  /\ pc = "print_analysis"
  /\ Len(messages) = 3
  /\ messages[1].role = "assistant" /\ messages[2].role = "assistant"
  /\ messages[1].created_at > messages[2].created_at
  /\ messages[1].content = <<TextPart(<<"B">>)>>
  /\ messages[2].content = <<TextPart(<<"A">>)>>
  /\ analysis.value = <<"B">>

(* -------------------------------- C6 ----------------------------------- *)
\* the length of the part of the prompt between the "Website Content:" piece
\* and the closing piece of the template
EmbeddedLen == Len(message_content) - Len(user_input) - 3

\* C6: for a URL query the prompt embeds the first 4000 characters of the
\* fetched text, all of it when it is shorter, and never more.
C6_Truncation ==
  (invoked = 1 /\ is_url /\ message_content # << >>) =>
     /\ message_content[Len(user_input) + 2] = PromptWebsiteContent
     /\ message_content[Len(message_content)] = PromptUrlTail
     /\ EmbeddedLen <= 4000
     /\ EmbeddedLen = Min2(Len(website_content), 4000)
     /\ \A i \in 1..EmbeddedLen :
          message_content[Len(user_input) + 2 + i] = website_content[i]

C6_Witness ==
  /\ pc = "create_thread"
  /\ is_url
  /\ Len(website_content) > 4000
  /\ EmbeddedLen = 4000

(* -------------------------------- C7 ----------------------------------- *)
\* C7: a query that does not start with http:// or https:// never reaches
\* the fetcher and its prompt has no "Website Content" piece; a query that
\* does is fetched exactly once, with the query as URL.
C7_FetchOnlyUrls ==
  (invoked = 1) =>
     IF StartsWith(user_input, <<"h", "t", "t", "p", ":", "/", "/">>)
          \/ StartsWith(user_input, <<"h", "t", "t", "p", "s", ":", "/", "/">>)
     THEN /\ Cardinality(OpsOf("fetch")) = 1
          /\ calls[1].op = "fetch" /\ calls[1].arg = user_input
          /\ response # NoResponse
     ELSE /\ OpsOf("fetch") = {}
          /\ response = NoResponse
          /\ PromptWebsiteContent \notin Range(message_content)
          /\ message_content = <<PromptNameHead>> \o user_input \o <<PromptNameTail>>

C7_Witness ==
  /\ pc = "create_thread"
  /\ user_input = <<"H", "T", "T", "P", ":", "/", "/", "a">>
  /\ calls = <<Call("create_assistant", << >>, TRUE)>>

(* -------------------------------- C8 ----------------------------------- *)
NonWS(q) == SelectSeq(q, LAMBDA c : c \notin {" ", "\t", "\n"})
RECURSIVE VisibleChars(_)
VisibleChars(page) ==
  IF page = << >> THEN << >>
  ELSE (IF page[1].tag \in {"script", "style"} THEN << >> ELSE NonWS(page[1].text))
         \o VisibleChars(Tail(page))
FetchFailed(resp) == resp.transport # "ok" \/ resp.status >= 400 \/ resp.parse # "ok"

\* C8: the fetcher never raises: after a fetch the orchestrator goes on, with
\* a string that begins with the error prefix when the request, the status
\* or the extraction failed, and with the extracted text otherwise (the
\* characters of the nodes other than script and style, whitespace runs
\* collapsed to one space, no whitespace at the ends).
C8_FetchNeverRaises ==
  (invoked = 1 /\ response # NoResponse) =>
     /\ Len(calls) = 1 => pc = "create_assistant" /\ analysis.raised = "none"
     /\ IF FetchFailed(response)
        THEN /\ website_content[1] = "Error fetching website content: "
             /\ ~calls[1].ok
        ELSE /\ calls[1].ok
             /\ NonWS(website_content) = VisibleChars(response.page)
             /\ \A i \in 1..Len(website_content) :
                  /\ website_content[i] \notin {"\t", "\n"}
                  /\ website_content[i] = " " =>
                       (i > 1 /\ i < Len(website_content)
                          /\ website_content[i + 1] # " ")

C8_Witness ==
  /\ pc = "create_assistant"
  /\ response.transport = "Timeout"
  /\ website_content = <<"Error fetching website content: ", "Timeout">>

(* -------------------------------- C9 ----------------------------------- *)
\* the order of the operations of one call; only retrieve repeats; every
\* operation after the first follows a successful predecessor
CallsOrdered ==
  /\ \A i, j \in 1..Len(calls) :
       i < j => \/ Rank(calls[i].op) < Rank(calls[j].op)
                \/ calls[i].op = "retrieve" /\ calls[j].op = "retrieve"
  /\ \A i \in 1..Len(calls) :
       LET r == Rank(calls[i].op)
       IN /\ r = 2 => (i = 1 \/ calls[i - 1].op = "fetch")
          /\ r \in {3, 4, 5} =>
               (i > 1 /\ Rank(calls[i - 1].op) = r - 1 /\ calls[i - 1].ok)
          /\ r \in {6, 7} =>
               (i > 1 /\ Rank(calls[i - 1].op) \in {5, 6} /\ calls[i - 1].ok)
  /\ (OpsOf("fetch") # {}) = (invoked = 1 /\ is_url)
  /\ \A i \in OpsOf("fetch") : calls[i].arg = user_input
  /\ OpsOf("post_message") # {} /\ calls[CHOOSE i \in OpsOf("post_message") : TRUE].ok
       => thread = <<Message("user", 1, <<TextPart(message_content)>>)>>
  /\ OpsOf("list_messages") # {} => run_status \notin {"queued", "in_progress", "none"}

\* C9 as stated: the operations of one call happen in the fixed order, and
\* a failure in any step, the fetch included, is the last operation of the
\* call.
C9_Original ==
  /\ CallsOrdered
  /\ \A i \in 1..Len(calls) : ~calls[i].ok => i = Len(calls)

\* C9 amended: the operations of one call happen in the fixed order, each
\* at most once except retrieve; a failure of any remote API step is the
\* last operation of the call and hands control to main, while a failed
\* fetch does not stop the call (its error string is embedded in the
\* prompt); a new line is read only when no call is in progress.
C9_Order ==
  /\ [](/\ CallsOrdered
        /\ \A i \in 1..Len(calls) :
             (~calls[i].ok /\ calls[i].op # "fetch") =>
                (i = Len(calls) /\ pc \in {"except", "prompt"})
        /\ pc \in {"create_assistant", "create_thread", "post_message",
                   "create_run", "poll", "list", "print_analysis", "except"}
             => invoked = 1)
  /\ [][(user_input' # user_input \/ invoked' = 0) => pc = "prompt"]_vars

C9_Witness ==
  /\ pc = "print_analysis"
  /\ calls[1].op = "fetch" /\ ~calls[1].ok
  /\ Cardinality(OpsOf("retrieve")) >= 2
  /\ LastCall.op = "list_messages" /\ LastCall.ok

(* -------------------------------- C10 ---------------------------------- *)
\* C10: the status that ended the poll loop plays no part afterwards: every
\* status outside queued and in_progress leads to the listing, and a run
\* that did not complete and left no assistant message yields the sentinel
\* as a returned value, never an error.
C10_StatusIgnored ==
  /\ [][(pc = "poll" /\ run_status \notin {"queued", "in_progress"})
          => (pc' = "list" /\ run_status' = run_status)]_vars
  /\ []((Listed /\ run_status # "completed" /\ AssistantIn(messages) = {}) =>
          /\ analysis = Returned(<<"No analysis was generated.">>)
          /\ pc \in {"print_analysis", "prompt"})
  /\ []((Listed /\ run_status # "completed" /\ AssistantIn(messages) # {}
           /\ NewestAssistant(messages).content = <<TextPart(<<"A">>)>>) =>
          analysis = Returned(<<"A">>))

C10_Witness ==
  /\ pc = "prompt"
  /\ printed = "result"
  /\ run_status = "cancelled"
  /\ Len(messages) = 1
  /\ analysis = Returned(<<"No analysis was generated.">>)
====
